---- MODULE Spec2Model ----
(***************************************************************************)
(* jarswap: swap a locally built jar into the ivy cache, keeping the       *)
(* cached jar as a restorable backup (src/jarswap.py).                     *)
(*                                                                         *)
(* A filename is a sequence of one-character strings, so that the regular  *)
(* expression, str.split and int are modelled by what they do.  A          *)
(* directory is a function from the filenames it holds to their contents.  *)
(* One run of the script is one step of the model.                         *)
(***************************************************************************)
EXTENDS Integers, Sequences, FiniteSets, TLC

VARIABLES
    dirs,       \* the directories that exist
    files,      \* files[d]: filename -> content, for each directory path d
    cache,      \* args.cache: the cache root given on the command line
    pre,        \* files as they were when the last run started
    last,       \* the last run: its flags, the files its scans selected, how it ended
    prior,      \* the operation of the run before the last if it completed, else "none"
    origin,     \* the cache slot as it was in state Live, and the runs made on it since
    cmp         \* the JarFiles handed to __lt__ and what the comparisons returned

vars == <<dirs, files, cache, pre, last, prior, origin, cmp>>

----------------------------------------------------------------------------
(* Bounds of the model *)

\* most files the cache jars directory holds initially
MaxCacheFiles == 3
\* most files the build directory holds initially
MaxBuildFiles == 2
\* most dot-separated components of a version handed to __lt__ on its own
MaxComponents == 2
\* most names of a directory all of whose listing orders are scanned again
\* with and without the names that are no candidates
MaxListed == 2

----------------------------------------------------------------------------
(* Characters and strings *)

DigitChars == <<"0", "1", "2", "3", "4", "5", "6", "7", "8", "9">>

\* the character class [0-9.]
VersionChars == {DigitChars[i] : i \in 1..10} \cup {"."}

DOT == "."
DASH == "-"
JAR == <<".", "j", "a", "r">>
JAR_BAK == <<".", "j", "a", "r", ".", "b", "a", "k">>
BAK == <<".", "b", "a", "k">>

SetMax(S) == CHOOSE x \in S : \A y \in S : y <= x

\* A local variable of the program: value is computed once, where the
\* assignment stands, and Body is the code that follows and reads it.
Local(value, Body(_)) == CHOOSE result \in {Body(v) : v \in {value}} : TRUE

----------------------------------------------------------------------------
(* JarFileFactory._parse_filename / JarFile._parse_filename: re.search for  *)
(* the pattern  group 1: any characters, a dash, group 2: digits and dots, *)
(* group 3: .jar or .jar.bak, end of the string.                           *)

\* The ways the pattern can match the whole of fn from its start: group 1 is
\* fn[1..i], fn[i+1] is the dash, group 2 is fn[i+2..j], group 3 is the rest
\* of fn, so j is fixed by the alternative of group 3.  A match is <<i, j, group 3>>.
PatternMatches(fn) ==
    {m \in {<<i, Len(fn) - Len(e), e>> : i \in {k \in 0..(Len(fn) - 1) : fn[k + 1] = DASH},
                                         e \in {JAR, JAR_BAK}} :
        /\ m[2] >= m[1] + 1
        /\ \A k \in (m[1] + 2)..m[2] : fn[k] \in VersionChars
        /\ SubSeq(fn, m[2] + 1, Len(fn)) = m[3]}

NoMatch == [matched |-> FALSE, basename |-> <<>>, version |-> <<>>, extension |-> <<>>]

\* The match the backtracking search returns: the greedy (.*) takes the longest
\* group 1 that lets the rest match, then the greedy [0-9.]* the longest group 2,
\* then the first alternative of group 3 that fits.
parse_filename(fn) ==
    Local(PatternMatches(fn), LAMBDA M :
    IF M = {} THEN NoMatch
    ELSE Local(SetMax({m[1] : m \in M}), LAMBDA i :
         Local(SetMax({m[2] : m \in {n \in M : n[1] = i}}), LAMBDA j :
         Local({m[3] : m \in {n \in M : n[1] = i /\ n[2] = j}}, LAMBDA E :
            [matched   |-> TRUE,
             basename  |-> SubSeq(fn, 1, i),
             version   |-> SubSeq(fn, i + 2, j),
             extension |-> IF JAR \in E THEN JAR ELSE JAR_BAK]))))

\* JarFile.__init__: the fields are extracted again from the filename, each
\* by the same search, whose groups are read here once
JarFile(filename) ==
    Local(parse_filename(filename), LAMBDA groups :
        [filename  |-> filename,
         basename  |-> groups.basename,
         version   |-> groups.version,
         extension |-> groups.extension])

\* JarFileFactory.create_jar_file: a JarFile, or None
create_jar_file(filename) ==
    IF parse_filename(filename).matched
    THEN [none |-> FALSE, jar |-> JarFile(filename)]
    ELSE [none |-> TRUE, jar |-> JarFile(filename)]

construct_backup_filename(jar) == jar.basename \o <<DASH>> \o jar.version \o JAR_BAK

construct_filename(jar) == jar.basename \o <<DASH>> \o jar.version \o JAR

is_backup(jar) == jar.extension = JAR_BAK

----------------------------------------------------------------------------
(* JarFile.__lt__ *)

\* str.split('.'): the pieces between the dots, empty pieces included
RECURSIVE Split(_)
Split(s) ==
    IF \A k \in 1..Len(s) : s[k] # DOT THEN <<s>>
    ELSE Local(CHOOSE k \in 1..Len(s) : s[k] = DOT /\ \A l \in 1..(k - 1) : s[l] # DOT,
               LAMBDA d : <<SubSeq(s, 1, d - 1)>> \o Split(SubSeq(s, d + 1, Len(s))))

DigitVal(c) == (CHOOSE i \in 1..10 : DigitChars[i] = c) - 1

\* int(s) for a non-empty string of digits
RECURSIVE IntOf(_)
IntOf(s) ==
    IF Len(s) = 0 THEN 0
    ELSE 10 * IntOf(SubSeq(s, 1, Len(s) - 1)) + DigitVal(s[Len(s)])

\* int(s) raises ValueError for the empty string
IntRaises(s) == Len(s) = 0

\* The loop of __lt__ from position counter on: "True", "False", or the
\* exception that ends it.
RECURSIVE LtFrom(_, _, _)
LtFrom(version_components, other_version_components, counter) ==
    IF counter > Len(version_components) THEN "False"
    ELSE IF counter > Len(other_version_components) THEN "IndexError"
    ELSE Local(version_components[counter], LAMBDA component :
         Local(other_version_components[counter], LAMBDA other_component :
            IF IntRaises(component) \/ IntRaises(other_component) THEN "ValueError"
            ELSE IF IntOf(component) # IntOf(other_component)
                 THEN (IF IntOf(component) < IntOf(other_component) THEN "True" ELSE "False")
                 ELSE LtFrom(version_components, other_version_components, counter + 1)))

\* __lt__ returning after the first pair of components, equal or not
JarFile_lt_first_component(self, other) ==
    Local(Split(self.version), LAMBDA version_components :
    Local(Split(other.version), LAMBDA other_version_components :
        LtFrom(SubSeq(version_components, 1, 1), other_version_components, 1)))

\* __lt__ taking a version that runs out first for the smaller one
JarFile_lt_shorter_less(self, other) ==
    Local(Split(self.version), LAMBDA version_components :
    Local(Split(other.version), LAMBDA other_version_components :
    Local(LtFrom(version_components, other_version_components, 1), LAMBDA result :
        IF result = "False" /\ Len(version_components) < Len(other_version_components)
        THEN "True" ELSE result)))

\* __lt__ with the operands the wrong way round
JarFile_lt_reversed(self, other) ==
    Local(Split(self.version), LAMBDA version_components :
    Local(Split(other.version), LAMBDA other_version_components :
        LtFrom(other_version_components, version_components, 1)))

JarFile_lt(self, other) ==
    Local(Split(self.version), LAMBDA version_components :
    Local(Split(other.version), LAMBDA other_version_components :
        LtFrom(version_components, other_version_components, 1)))

----------------------------------------------------------------------------
(* The builtin max over an iterator of JarFiles *)

NoJar == [filename |-> <<>>, basename |-> <<>>, version |-> <<>>, extension |-> <<>>]

\* max keeps the first item and replaces it by each later item that compares
\* greater; JarFile defines only __lt__, so item > maxitem is evaluated as
\* maxitem.__lt__(item).  An exception of the comparison ends the search.
RECURSIVE MaxFrom(_, _, _)
MaxFrom(jars, maxitem, k) ==
    IF k > Len(jars) THEN [raised |-> "", jar |-> maxitem]
    ELSE Local(JarFile_lt(maxitem, jars[k]), LAMBDA greater :
         IF greater \in {"IndexError", "ValueError"} THEN [raised |-> greater, jar |-> NoJar]
         ELSE Local(IF greater = "True" THEN jars[k] ELSE maxitem, LAMBDA item :
                    MaxFrom(jars, item, k + 1)))

\* max(jars): ValueError for an empty iterator
py_max(jars) ==
    IF Len(jars) = 0 THEN [raised |-> "ValueError", jar |-> NoJar]
    ELSE MaxFrom(jars, jars[1], 2)

\* filter(None, map(JarFileFactory.create_jar_file, names))
JarFilesOf(names) ==
    Local(SelectSeq([k \in 1..Len(names) |-> create_jar_file(names[k])], LAMBDA r : ~r.none),
          LAMBDA kept : [k \in 1..Len(kept) |-> kept[k].jar])

----------------------------------------------------------------------------
(* Paths and the file system *)

IVY_CACHE == <<"~", ".ivy2", "cache">>
OTHER_CACHE == <<"other", "cache">>
BUILD_DIR == <<"build", "libs">>
PACKAGE == "package"
PROJECT == "project"

\* os.path.join(root, package, project, 'jars')
jar_path(root) == root \o <<PACKAGE, PROJECT, "jars">>

CacheRoots == {IVY_CACHE, OTHER_CACHE}
Paths == CacheRoots \cup {jar_path(r) : r \in CacheRoots} \cup {BUILD_DIR}

EmptyDir == [n \in {} |-> <<>>]

Put(d, name, content) ==
    [n \in DOMAIN d \cup {name} |-> IF n = name THEN content ELSE d[n]]

Remove(d, name) == [n \in DOMAIN d \ {name} |-> d[n]]

\* os.path.isfile(os.path.join(directory, name))
isfile(F, directory, name) == name \in DOMAIN F[directory]

\* the orders in which os.listdir can return the names of S
RECURSIVE Listings(_)
Listings(S) ==
    IF S = {} THEN {<<>>}
    ELSE UNION {{<<n>> \o l : l \in Listings(S \ {n})} : n \in S}

\* shutil.move within one directory: rename, replacing a file already at dst
shutil_move(F, directory, src, dst) ==
    IF ~isfile(F, directory, src)
    THEN [files |-> F, raised |-> "FileNotFoundError"]
    ELSE [files |-> [F EXCEPT ![directory] = Put(Remove(@, src), dst, F[directory][src])],
          raised |-> ""]

\* shutil.copy: the content of the source file is written to the destination
\* path; the source file stays
shutil_copy(D, F, source, src, destination, dst) ==
    IF ~isfile(F, source, src) \/ destination \notin D
    THEN [files |-> F, raised |-> "FileNotFoundError"]
    ELSE [files |-> [F EXCEPT ![destination] = Put(@, dst, F[source][src])],
          raised |-> ""]

----------------------------------------------------------------------------
(* JarFile's file operations *)

\* create_backup without the test for an existing backup
create_backup_always(F, self, directory, force) ==
    shutil_move(F, directory, self.filename, self.filename \o BAK)

\* create_backup testing for the name it moves to, not for the backup name
create_backup_testing_target(F, self, directory, force) ==
    IF isfile(F, directory, self.filename \o BAK) /\ ~force
    THEN [files |-> F, raised |-> ""]
    ELSE shutil_move(F, directory, self.filename, self.filename \o BAK)

\* JarFile.create_backup(directory, force)
create_backup(F, self, directory, force) ==
    IF isfile(F, directory, construct_backup_filename(self)) /\ ~force
    THEN [files |-> F, raised |-> ""]
    ELSE shutil_move(F, directory, self.filename, self.filename \o BAK)

EXIT_NO_BACKUP == "exit(1): No backup exists for jar"
EXIT_NO_DIRECTORY == "exit(1): Directory not found"
EXIT_NO_BUILD == "exit(1): Could not find latest build"
EXIT_NO_JAR == "exit(1): Could not find latest jar"

\* restore_from_backup moving the backup to self.filename, not to the live name
restore_from_backup_to_filename(F, self, directory) ==
    IF ~isfile(F, directory, construct_backup_filename(self))
    THEN [files |-> F, raised |-> EXIT_NO_BACKUP]
    ELSE shutil_move(F, directory, construct_backup_filename(self), self.filename)

\* restore_from_backup without the test that the backup exists
restore_from_backup_unchecked(F, self, directory) ==
    shutil_move(F, directory, construct_backup_filename(self), construct_filename(self))

\* restore_from_backup copying the backup instead of moving it
restore_from_backup_copying(F, self, directory) ==
    IF ~isfile(F, directory, construct_backup_filename(self))
    THEN [files |-> F, raised |-> EXIT_NO_BACKUP]
    ELSE [files |-> [F EXCEPT ![directory] =
                        Put(@, construct_filename(self), @[construct_backup_filename(self)])],
          raised |-> ""]

\* restore_from_backup leaving a live file that exists alone
restore_from_backup_unless_live(F, self, directory) ==
    IF ~isfile(F, directory, construct_backup_filename(self))
    THEN [files |-> F, raised |-> EXIT_NO_BACKUP]
    ELSE IF isfile(F, directory, construct_filename(self))
    THEN [files |-> F, raised |-> ""]
    ELSE shutil_move(F, directory, construct_backup_filename(self), construct_filename(self))

\* JarFile.restore_from_backup(directory)
restore_from_backup(F, self, directory) ==
    IF ~isfile(F, directory, construct_backup_filename(self))
    THEN [files |-> F, raised |-> EXIT_NO_BACKUP]
    ELSE shutil_move(F, directory, construct_backup_filename(self), construct_filename(self))

\* copy writing the destination under the build file's own name
copy_unrenamed(D, F, self, source, destination) ==
    shutil_copy(D, F, source, self.filename, destination, self.filename)

\* copy moving the build file instead of copying it
copy_moving(D, F, self, source, destination) ==
    Local(shutil_copy(D, F, source, self.filename, destination, construct_filename(self)),
          LAMBDA copied :
            IF copied.raised # "" THEN copied
            ELSE [files |-> [copied.files EXCEPT ![source] = Remove(@, self.filename)],
                  raised |-> ""])

\* copy that installs nothing
copy_nothing(D, F, self, source, destination) ==
    IF ~isfile(F, source, self.filename) \/ destination \notin D
    THEN [files |-> F, raised |-> "FileNotFoundError"]
    ELSE [files |-> F, raised |-> ""]

\* JarFile.copy(source, destination)
copy(D, F, self, source, destination) ==
    shutil_copy(D, F, source, self.filename, destination, construct_filename(self))

----------------------------------------------------------------------------
(* The scans *)

\* find_latest_jar(package, project): the scan reads the jars directory under
\* IVY_CACHE; os.listdir raises FileNotFoundError when it does not exist.
find_latest_jar(D, listing) ==
    IF jar_path(IVY_CACHE) \notin D THEN [raised |-> "FileNotFoundError", jar |-> NoJar]
    ELSE Local(JarFilesOf(listing), LAMBDA jars : py_max(jars))

\* the build pattern taking backups as well
BuildPatternMatches_with_backups(fn) == PatternMatches(fn)

\* re.match of the build pattern: as the jar pattern with .jar alone as group 3
BuildPatternMatches(fn) == {m \in PatternMatches(fn) : m[3] = JAR}

\* get_latest_build_jar(build_dir)
get_latest_build_jar(listing) ==
    Local(SelectSeq(listing, LAMBDA fn : BuildPatternMatches(fn) # {}), LAMBDA jars :
    Local(JarFilesOf(jars), LAMBDA jar_files : py_max(jar_files)))

\* What the two scans of one run can return, over the orders in which
\* os.listdir can return the names of the directory.  map and filter keep the
\* order of the listing, so the JarFiles arrive at max in any order of their own.
BuildScans(F, build_dir) ==
    {py_max(jar_files) : jar_files \in Listings(
        {create_jar_file(fn).jar : fn \in {n \in DOMAIN F[build_dir] :
            BuildPatternMatches(n) # {} /\ ~create_jar_file(n).none}})}

CacheScans(D, F) ==
    IF jar_path(IVY_CACHE) \notin D THEN {find_latest_jar(D, <<>>)}
    ELSE {py_max(jars) : jars \in Listings(
            {create_jar_file(fn).jar : fn \in {n \in DOMAIN F[jar_path(IVY_CACHE)] :
                ~create_jar_file(n).none}})}

\* the same, scan by scan over the listings of the directory
BuildScansByListing(F, build_dir) ==
    {get_latest_build_jar(listing) : listing \in Listings(DOMAIN F[build_dir])}

CacheScansByListing(D, F) ==
    {find_latest_jar(D, listing) : listing \in Listings(DOMAIN F[jar_path(IVY_CACHE)])}

\* bool(jar): JarFile defines neither __bool__ nor __len__, so an instance is true
Truthy(jar) == TRUE

----------------------------------------------------------------------------
(* The two operations and the script *)

Ended(F, status, latest, current) ==
    [files |-> F, status |-> status, latest |-> latest, current |-> current]

\* create_backup_and_replace(cache_dir, build_dir, package, project, force);
\* build_scan is what get_latest_build_jar(build_dir) returns or raises in this
\* run, cache_scan what find_latest_jar(package, project) returns or raises
create_backup_and_replace(D, F, cache_dir, build_dir, force, build_scan, cache_scan) ==
    Local(build_scan, LAMBDA latest :
    IF latest.raised # "" THEN Ended(F, latest.raised, NoJar, NoJar)
    ELSE IF ~Truthy(latest.jar) THEN Ended(F, EXIT_NO_BUILD, NoJar, NoJar)
    ELSE
    Local(cache_scan, LAMBDA current :
    IF current.raised # "" THEN Ended(F, current.raised, latest.jar, NoJar)
    ELSE IF ~Truthy(current.jar) THEN Ended(F, EXIT_NO_JAR, latest.jar, NoJar)
    ELSE
    Local([latest.jar EXCEPT !.basename = current.jar.basename,
                             !.version = current.jar.version], LAMBDA latest_jar :
    Local(build_dir, LAMBDA source :
    Local(jar_path(cache_dir), LAMBDA destination :
    Local(create_backup(F, current.jar, destination, force), LAMBDA backed :
    IF backed.raised # "" THEN Ended(backed.files, backed.raised, latest.jar, current.jar)
    ELSE
    Local(copy(D, backed.files, latest_jar, source, destination), LAMBDA copied :
    Ended(copied.files, IF copied.raised # "" THEN copied.raised ELSE "ok",
          latest.jar, current.jar))))))))

\* restore_latest_backup(cache_dir, package, project)
restore_latest_backup(D, F, cache_dir, cache_scan) ==
    Local(jar_path(cache_dir), LAMBDA destination :
    Local(cache_scan, LAMBDA latest_jar :
    IF latest_jar.raised # "" THEN Ended(F, latest_jar.raised, NoJar, NoJar)
    ELSE
    Local(restore_from_backup(F, latest_jar.jar, destination), LAMBDA restored :
    Ended(restored.files, IF restored.raised # "" THEN restored.raised ELSE "ok",
          NoJar, latest_jar.jar))))

\* the script's main block
main(D, F, cache_dir, build_dir, force, restore, build_scan, cache_scan) ==
    IF cache_dir \notin D THEN Ended(F, EXIT_NO_DIRECTORY, NoJar, NoJar)
    ELSE IF build_dir \notin D THEN Ended(F, EXIT_NO_DIRECTORY, NoJar, NoJar)
    ELSE IF ~restore
         THEN create_backup_and_replace(D, F, cache_dir, build_dir, force,
                                        build_scan, cache_scan)
         ELSE restore_latest_backup(D, F, cache_dir, cache_scan)

----------------------------------------------------------------------------
(* The files the directories hold initially *)

FOO == <<"f", "o", "o">>
LIB == <<"l", "i", "b">>

Name(basename, version, extension) == basename \o <<DASH>> \o version \o extension

FOO_1_2_JAR == Name(FOO, <<"1", ".", "2">>, JAR)
FOO_1_2_BAK == Name(FOO, <<"1", ".", "2">>, JAR_BAK)
FOO_1_2_0_JAR == Name(FOO, <<"1", ".", "2", ".", "0">>, JAR)
FOO_1_1_BAK == Name(FOO, <<"1", ".", "1">>, JAR_BAK)
NOTES_TXT == <<"n", "o", "t", "e", "s", ".", "t", "x", "t">>

LIB_1_10_JAR == Name(LIB, <<"1", ".", "1", "0">>, JAR)
LIB_1_9_JAR == Name(LIB, <<"1", ".", "9">>, JAR)
LIB_1_9_0_JAR == Name(LIB, <<"1", ".", "9", ".", "0">>, JAR)
LIB_9_9_BAK == Name(LIB, <<"9", ".", "9">>, JAR_BAK)

CacheNames == {FOO_1_2_JAR, FOO_1_2_BAK, FOO_1_1_BAK, FOO_1_2_0_JAR, NOTES_TXT}
BuildNames == {LIB_1_10_JAR, LIB_1_9_JAR, LIB_1_9_0_JAR, LIB_9_9_BAK}

\* every initial file has a content of its own: the directory it is in and its
\* place in the list of names
AllNames == <<FOO_1_2_JAR, FOO_1_2_BAK, FOO_1_1_BAK, FOO_1_2_0_JAR, NOTES_TXT,
              LIB_1_10_JAR, LIB_1_9_JAR, LIB_1_9_0_JAR, LIB_9_9_BAK>>

Content(where, name) == <<where, CHOOSE k \in 1..Len(AllNames) : AllNames[k] = name>>

InitialDir(where, names) == [n \in names |-> Content(where, n)]

----------------------------------------------------------------------------
(* The cache slot as the properties below speak of it *)

\* the jars directory of the cache the script was pointed at
JARS == jar_path(cache)

\* the artifacts among the names of directory d: the names the pattern accepts
Artifacts(d) == {n \in DOMAIN d : parse_filename(n).matched}

LiveName(fn) == construct_filename(JarFile(fn))
BackupName(fn) == construct_backup_filename(JarFile(fn))

Backups(d) == {n \in Artifacts(d) : is_backup(JarFile(n))}

\* state Live: one live artifact and no other artifact
LiveOnly(d) == \E n \in Artifacts(d) : Artifacts(d) = {n} /\ ~is_backup(JarFile(n))

\* the scans of the last run selected a build artifact / a cache artifact
BuildSelected == last.latest # <<>>
CacheSelected == last.current # <<>>

\* the content of the build artifact the last run selected
BuildContent == pre[BUILD_DIR][last.latest]

----------------------------------------------------------------------------
(* The state machine: the script is run again and again on the same machine *)

NoRun == [op |-> "none", force |-> FALSE, status |-> "", latest |-> <<>>, current |-> <<>>]

\* no slot is followed: no replace has been made from state Live
NoOrigin == [dir |-> EmptyDir, replaced |-> "no", forced |-> FALSE, restored |-> FALSE]

\* no comparison is made yet
NoLt == [self_other |-> "", other_self |-> "", other_third |-> "", self_third |-> "",
         self_self |-> ""]

\* no JarFiles are compared
NoCompare == [self |-> <<>>, other |-> <<>>, third |-> <<>>, done |-> FALSE, lt |-> NoLt]

\* The slot followed after a run that ended as r: a completed replace from
\* state Live starts it with the jars directory as that replace found it; each
\* completed replace after it is counted (once, more) with whether force was
\* used; a completed restore ends it, and the run after that forgets it.
\* A run that does not complete leaves it as it is.
FollowOrigin(force, restore, r) ==
    IF ~restore /\ r.status = "ok" /\ LiveOnly(files[JARS])
    THEN [dir |-> files[JARS], replaced |-> "once", forced |-> force, restored |-> FALSE]
    ELSE IF origin.replaced = "no" \/ origin.restored THEN NoOrigin
    ELSE IF r.status # "ok" THEN origin
    ELSE IF restore THEN [origin EXCEPT !.restored = TRUE]
    ELSE [origin EXCEPT !.replaced = "more", !.forced = @ \/ force]

\* The file system before the first run under cache root cache_dir.  The build
\* directory and the cache directories may be missing; the jars directory of
\* the cache and the build directory hold any few of the names above.
InitWith(cache_dir) ==
    \E build_exists \in BOOLEAN, root_exists \in BOOLEAN, jars_exists \in BOOLEAN,
       B \in SUBSET BuildNames, C \in SUBSET CacheNames :
        /\ Cardinality(B) <= MaxBuildFiles
        /\ Cardinality(C) <= MaxCacheFiles
        /\ ~build_exists => B = {}
        /\ ~root_exists => ~jars_exists
        /\ ~jars_exists => C = {}
        /\ cache = cache_dir
        /\ dirs = (IF build_exists THEN {BUILD_DIR} ELSE {})
                   \cup (IF root_exists THEN {cache_dir} ELSE {})
                   \cup (IF jars_exists THEN {jar_path(cache_dir)} ELSE {})
        /\ files = [d \in Paths |->
                        IF d = BUILD_DIR THEN InitialDir("build", B)
                        ELSE IF d = jar_path(cache_dir) THEN InitialDir("cache", C)
                        ELSE EmptyDir]
        /\ pre = files
        /\ last = NoRun
        /\ prior = "none"
        /\ origin = NoOrigin
        /\ cmp = NoCompare

\* the script is run without --cache: args.cache is its default, IVY_CACHE
Init == InitWith(IVY_CACHE)

\* One run of the script with the given flags; the scans are what the two
\* directory scans return in this run.
Run(force, restore, build_scan, cache_scan) ==
    \E r \in {main(dirs, files, cache, BUILD_DIR, force, restore, build_scan, cache_scan)} :
       /\ files' = r.files
       /\ pre' = files
       /\ last' = [op |-> IF restore THEN "restore" ELSE "replace",
                   force |-> force,
                   status |-> r.status,
                   latest |-> r.latest.filename,
                   current |-> r.current.filename]
       /\ prior' = (IF last.status = "ok" THEN last.op ELSE "none")
       /\ origin' = FollowOrigin(force, restore, r)
       /\ UNCHANGED <<dirs, cache, cmp>>

\* jarswap [-f] package project
Replace ==
    \E force \in BOOLEAN, build_scan \in BuildScans(files, BUILD_DIR),
       cache_scan \in CacheScans(dirs, files) :
        Run(force, FALSE, build_scan, cache_scan)

\* jarswap -R package project (args.force is not read in a restore)
Restore ==
    \E cache_scan \in CacheScans(dirs, files) :
        Run(FALSE, TRUE, cache_scan, cache_scan)

Next == Replace \/ Restore

Spec == Init /\ [][Next]_vars

\* the names the two cache roots and the build directory hold when the script
\* is run with --cache
OverrideCacheNames == {FOO_1_2_JAR, FOO_1_2_BAK, FOO_1_1_BAK}
OverrideBuildNames == {LIB_1_10_JAR, LIB_1_9_JAR}

\* The script is run with --cache OTHER_CACHE on a machine that has the
\* default cache as well: both roots exist, each with its own jars directory
\* (which may be missing) and its own files.
InitOverride ==
    \E ivy_jars_exists \in BOOLEAN, other_jars_exists \in BOOLEAN,
       B \in SUBSET OverrideBuildNames,
       I \in SUBSET OverrideCacheNames, O \in SUBSET OverrideCacheNames :
        /\ Cardinality(B) <= MaxBuildFiles
        /\ Cardinality(I) <= MaxBuildFiles
        /\ Cardinality(O) <= MaxBuildFiles
        /\ ~ivy_jars_exists => I = {}
        /\ ~other_jars_exists => O = {}
        /\ cache = OTHER_CACHE
        /\ dirs = {BUILD_DIR, IVY_CACHE, OTHER_CACHE}
                   \cup (IF ivy_jars_exists THEN {jar_path(IVY_CACHE)} ELSE {})
                   \cup (IF other_jars_exists THEN {jar_path(OTHER_CACHE)} ELSE {})
        /\ files = [d \in Paths |->
                        IF d = BUILD_DIR THEN InitialDir("build", B)
                        ELSE IF d = jar_path(IVY_CACHE) THEN InitialDir("ivy", I)
                        ELSE IF d = jar_path(OTHER_CACHE) THEN InitialDir("other", O)
                        ELSE EmptyDir]
        /\ pre = files
        /\ last = NoRun
        /\ prior = "none"
        /\ origin = NoOrigin
        /\ cmp = NoCompare

SpecOverride == InitOverride /\ [][Next]_vars

----------------------------------------------------------------------------
(* JarFile.__lt__ on its own: the JarFiles of three filenames the pattern    *)
(* accepts are compared with each other                                      *)

\* the components of the versions compared: digits that read 9 and 10, and the
\* empty component the character class of the pattern lets through
LtComponents == {<<>>, <<"9">>, <<"1", "0">>}

\* the strings that join at most n of these components with dots
RECURSIVE VersionsUpTo(_)
VersionsUpTo(n) ==
    IF n <= 1 THEN LtComponents
    ELSE VersionsUpTo(n - 1)
         \cup {v \o <<DOT>> \o c : v \in VersionsUpTo(n - 1), c \in LtComponents}

LtNames == {Name(FOO, v, JAR) : v \in VersionsUpTo(MaxComponents)}

InitLt ==
    /\ dirs = {}
    /\ files = [d \in Paths |-> EmptyDir]
    /\ cache = IVY_CACHE
    /\ pre = files
    /\ last = NoRun
    /\ prior = "none"
    /\ origin = NoOrigin
    /\ \E self \in LtNames, other \in LtNames, third \in LtNames :
          cmp = [self |-> self, other |-> other, third |-> third, done |-> FALSE,
                 lt |-> NoLt]

\* the JarFiles are created from the filenames and compared as max compares
\* them, each comparison returning True or False or raising
Compare ==
    /\ ~cmp.done
    /\ \E self \in {create_jar_file(cmp.self).jar},
          other \in {create_jar_file(cmp.other).jar},
          third \in {create_jar_file(cmp.third).jar} :
            cmp' = [cmp EXCEPT !.done = TRUE,
                               !.lt = [self_other  |-> JarFile_lt(self, other),
                                       other_self  |-> JarFile_lt(other, self),
                                       other_third |-> JarFile_lt(other, third),
                                       self_third  |-> JarFile_lt(self, third),
                                       self_self   |-> JarFile_lt(self, self)]]
    /\ UNCHANGED <<dirs, files, cache, pre, last, prior, origin>>

NextLt == Compare

SpecLt == InitLt /\ [][NextLt]_vars

----------------------------------------------------------------------------
\* C1: a replace (force or not) from state Live, with a latest build artifact
\* selected, completes and leaves the old content at <name>-<version>.jar.bak
\* and the build content at <name>-<version>.jar, whatever the build
\* artifact is called.
C1_ReplaceFromLive ==
    (last.op = "replace" /\ BuildSelected /\ LiveOnly(pre[JARS])) =>
        \A n \in Artifacts(pre[JARS]) :
            /\ last.status = "ok"
            /\ LiveName(n) = n
            /\ {n, BackupName(n)} \subseteq DOMAIN files[JARS]
            /\ files[JARS][BackupName(n)] = pre[JARS][n]
            /\ files[JARS][n] = BuildContent

C1_Witness ==
    /\ last.op = "replace" /\ BuildSelected /\ LiveOnly(pre[JARS])
    /\ last.force
    /\ last.status = "ok"
    /\ last.latest = LIB_1_10_JAR
    /\ FOO_1_2_BAK \in DOMAIN files[JARS]

\* C2: a replace without force, when the backup of the selected cache
\* artifact exists, completes and changes nothing in the cache but
\* <name>-<version>.jar, which gets the build content: no backup is created
\* and the backup keeps its content, whether the scan selected the live file
\* or the backup file.
C2_NoForceKeepsBackup ==
    (/\ last.op = "replace" /\ ~last.force /\ CacheSelected
     /\ BackupName(last.current) \in DOMAIN pre[JARS]) =>
        /\ last.status = "ok"
        /\ files[JARS] = Put(pre[JARS], LiveName(last.current), BuildContent)
        /\ files[JARS][BackupName(last.current)] = pre[JARS][BackupName(last.current)]

C2_Witness ==
    /\ last.op = "replace" /\ ~last.force /\ CacheSelected
    /\ last.current = BackupName(last.current)
    /\ LiveName(last.current) \in DOMAIN pre[JARS]
    /\ last.status = "ok"
    /\ files # pre

\* C3: a replace with force, when the live file and the backup of the
\* selected cache artifact both exist, leaves at <name>-<version>.jar.bak the
\* content that was at <name>-<version>.jar and at <name>-<version>.jar the
\* build content, whichever of the two files the scan selected.
C3_ForceOverwritesBackup ==
    (/\ last.op = "replace" /\ last.force /\ CacheSelected
     /\ {LiveName(last.current), BackupName(last.current)} \subseteq DOMAIN pre[JARS]) =>
        /\ last.status = "ok"
        /\ {LiveName(last.current), BackupName(last.current)} \subseteq DOMAIN files[JARS]
        /\ files[JARS][BackupName(last.current)] = pre[JARS][LiveName(last.current)]
        /\ files[JARS][LiveName(last.current)] = BuildContent

\* C4: a restore, when the live file and the backup of the selected cache
\* artifact both exist, completes and leaves the cache as it was but for the
\* backup file, which is gone, and <name>-<version>.jar, which holds the
\* backup's content (nothing keeps the previous live content), whichever of
\* the two files the scan selected.
C4_RestoreMovesBackup ==
    (/\ last.op = "restore" /\ CacheSelected
     /\ {LiveName(last.current), BackupName(last.current)} \subseteq DOMAIN pre[JARS]) =>
        /\ last.status = "ok"
        /\ BackupName(last.current) \notin DOMAIN files[JARS]
        /\ files[JARS] = Put(Remove(pre[JARS], BackupName(last.current)),
                             LiveName(last.current),
                             pre[JARS][BackupName(last.current)])

C4_Witness ==
    /\ last.op = "restore" /\ CacheSelected
    /\ {LiveName(last.current), BackupName(last.current)} \subseteq DOMAIN pre[JARS]
    /\ last.current = BackupName(last.current)
    /\ last.status = "ok"
    /\ pre[JARS][LiveName(last.current)] # pre[JARS][BackupName(last.current)]

\* C5: a restore, when the selected cache artifact has no backup
\* <name>-<version>.jar.bak, ends in exit(1) with the no-backup message and
\* changes no file of any directory; a backup of a lower version does not count.
C5_RestoreWithoutBackup ==
    (/\ last.op = "restore" /\ CacheSelected
     /\ BackupName(last.current) \notin DOMAIN pre[JARS]) =>
        /\ last.status = EXIT_NO_BACKUP
        /\ files = pre

C5_Witness ==
    /\ last.op = "restore" /\ CacheSelected
    /\ BackupName(last.current) \notin DOMAIN pre[JARS]
    /\ last.current = FOO_1_2_JAR
    /\ FOO_1_1_BAK \in DOMAIN pre[JARS]
    /\ last.status = EXIT_NO_BACKUP

\* a slot of one identity with its backup: the artifacts of d are one backup
\* file and at most the live file of the same name and version
OneBackupSlot(d) ==
    \E b \in Backups(d) : Artifacts(d) \subseteq {b, LiveName(b)}

\* the directories the script checks before it does anything exist
CheckedDirsExist == {cache, BUILD_DIR} \subseteq dirs

\* the last run was the first restore of C6: a restore on such a slot
FirstRestore == last.op = "restore" /\ CheckedDirsExist /\ OneBackupSlot(pre[JARS])

\* the first restore completes and consumes the backup
C6_FirstRestoreConsumes ==
    FirstRestore =>
        /\ last.status = "ok"
        /\ Backups(files[JARS]) = {}
        /\ \A b \in Backups(pre[JARS]) :
              /\ LiveName(b) \in DOMAIN files[JARS]
              /\ files[JARS][LiveName(b)] = pre[JARS][b]

\* a restore run right after it ends in exit(1) with the no-backup message
\* and changes no file
C6_SecondRestoreFails ==
    (FirstRestore /\ last.status = "ok" /\ last'.op = "restore") =>
        /\ last'.status = EXIT_NO_BACKUP
        /\ files' = files

\* C6: restore run twice in a row on a slot that holds exactly one backup: the
\* first run completes and consumes the backup, the second ends in exit(1)
\* with the no-backup message and changes nothing.
C6_RestoreTwice == [](C6_FirstRestoreConsumes) /\ [][C6_SecondRestoreFails]_vars

C6_Witness ==
    /\ last.op = "restore" /\ prior = "restore"
    /\ last.status = EXIT_NO_BACKUP
    /\ files = pre
    /\ LiveOnly(pre[JARS])
    /\ \E n \in Artifacts(pre[JARS]) : pre[JARS][n] = Content("cache", BackupName(n))

\* C7: no run changes the build directory: after a replace or a restore it
\* holds the same files with the same contents as before.
C7_BuildDirUnchanged ==
    last.op # "none" => files[BUILD_DIR] = pre[BUILD_DIR]

C7_Witness ==
    /\ last.op = "replace" /\ last.status = "ok"
    /\ files[JARS] # pre[JARS]
    /\ Cardinality(DOMAIN files[BUILD_DIR]) >= 2

\* the candidates of the build scan: the names the build pattern accepts
BuildCandidates(d) == {n \in DOMAIN d : BuildPatternMatches(n) # {}}

\* a scan of the last run found no candidate: the build scan of a replace, or
\* the cache scan of a restore or of a replace whose build scan selected a jar
ZeroCandidates ==
    /\ last.op # "none"
    /\ CheckedDirsExist /\ JARS \in dirs
    /\ \/ last.op = "replace" /\ BuildCandidates(pre[BUILD_DIR]) = {}
       \/ last.op = "replace" /\ BuildSelected /\ Artifacts(pre[JARS]) = {}
       \/ last.op = "restore" /\ Artifacts(pre[JARS]) = {}

\* C8: a run whose scan finds no candidate ends in exit(1) with one of the
\* script's could-not-find messages, before any file is moved or copied.
C8_NoCandidateReported ==
    ZeroCandidates =>
        /\ last.status \in {EXIT_NO_BUILD, EXIT_NO_JAR}
        /\ files = pre

\* C9: what the scans of a run select depends on the names in the directory
\* alone: on the directories the run found, all orders of the listing give
\* find_latest_jar the same result, and all give get_latest_build_jar the
\* same result.
C9_SelectionIgnoresOrder ==
    (last.op # "none" /\ CheckedDirsExist) =>
        /\ \A l1, l2 \in Listings(DOMAIN pre[jar_path(IVY_CACHE)]) :
              find_latest_jar(dirs, l1) = find_latest_jar(dirs, l2)
        /\ \A l1, l2 \in Listings(DOMAIN pre[BUILD_DIR]) :
              get_latest_build_jar(l1) = get_latest_build_jar(l2)

\* C10: the only file a replace can add to the cache besides
\* <name>-<version>.jar is the backup <name>-<version>.jar.bak of the
\* selected cache artifact, with force or without, whether the scan selected
\* the live file or a backup file.
C10_BackupNamedBak ==
    (last.op = "replace" /\ CacheSelected) =>
        (DOMAIN files[JARS] \ DOMAIN pre[JARS])
            \subseteq {LiveName(last.current), BackupName(last.current)}

\* what a scan of the jars directory under the configured cache root can
\* select, over the orders of its listing
ConfiguredScans(F) ==
    {py_max(JarFilesOf(listing)).jar.filename : listing \in Listings(DOMAIN F[JARS])}

\* C11: with --cache given, the cache artifact a replace or a restore works
\* on is one that a scan of <cache>/<package>/<project>/jars under the given
\* root selects, and that jars directory is the only directory the run
\* changes.
C11_ScanUnderConfiguredCache ==
    (last.op # "none" /\ CacheSelected) =>
        /\ last.current \in ConfiguredScans(pre)
        /\ \A d \in Paths \ {JARS} : files[d] = pre[d]

\* the version of the JarFile of a filename, as its components
Components(fn) == Split(JarFile(fn).version)

\* every component is a decimal number
Numeric(components) == \A k \in 1..Len(components) : ~IntRaises(components[k])

\* a is before b in the lexicographic order of the components as integers:
\* at the first place where they differ, a's component is the smaller number
LexLess(a, b) ==
    \E k \in 1..Len(a) :
        /\ k <= Len(b)
        /\ \A j \in 1..(k - 1) : IntOf(a[j]) = IntOf(b[j])
        /\ IntOf(a[k]) < IntOf(b[k])

Bool(b) == IF b THEN "True" ELSE "False"

\* the three JarFiles compared have versions of as many components each,
\* all of them numbers
SameLengthNumeric ==
    /\ cmp.done
    /\ Len(Components(cmp.self)) = Len(Components(cmp.other))
    /\ Len(Components(cmp.other)) = Len(Components(cmp.third))
    /\ \A fn \in {cmp.self, cmp.other, cmp.third} : Numeric(Components(fn))

\* C12: on versions with the same number of components __lt__ is the
\* lexicographic order of the components as integers, left to right: it is
\* True exactly when the first differing component of self is the smaller
\* number, and it is irreflexive, asymmetric and transitive.
C12_LtIsLexicographic ==
    SameLengthNumeric =>
        /\ cmp.lt.self_other = Bool(LexLess(Components(cmp.self), Components(cmp.other)))
        /\ cmp.lt.other_self = Bool(LexLess(Components(cmp.other), Components(cmp.self)))
        /\ cmp.lt.self_self = "False"
        /\ ~(cmp.lt.self_other = "True" /\ cmp.lt.other_self = "True")
        /\ (cmp.lt.self_other = "True" /\ cmp.lt.other_third = "True")
              => cmp.lt.self_third = "True"

C12_Witness ==
    /\ SameLengthNumeric
    /\ cmp.self = Name(FOO, <<"9", ".", "9">>, JAR)
    /\ cmp.other = Name(FOO, <<"9", ".", "1", "0">>, JAR)
    /\ cmp.third = Name(FOO, <<"1", "0", ".", "9">>, JAR)
    /\ cmp.lt.self_other = "True" /\ cmp.lt.other_third = "True"
    /\ cmp.lt.self_third = "True" /\ cmp.lt.other_self = "False"

\* a has fewer components than b, and the components they share are numbers
\* and the same numbers
ShorterPrefixEqual(a, b) ==
    /\ Len(a) < Len(b)
    /\ Numeric(a) /\ Numeric(SubSeq(b, 1, Len(a)))
    /\ \A k \in 1..Len(a) : IntOf(a[k]) = IntOf(b[k])

\* C13: when self's version has fewer components than other's and the shared
\* components are equal, self.__lt__(other) returns False: the shorter
\* version is not less than the longer one.
C13_ShorterNotLess ==
    (cmp.done /\ ShorterPrefixEqual(Components(cmp.self), Components(cmp.other))) =>
        cmp.lt.self_other = "False"

C13_Witness ==
    /\ cmp.done
    /\ ShorterPrefixEqual(Components(cmp.self), Components(cmp.other))
    /\ cmp.self = Name(FOO, <<"9">>, JAR)
    /\ cmp.other = Name(FOO, <<"9", ".", "1", "0">>, JAR)
    /\ cmp.lt.self_other = "False"

\* in every order of the listing of d, a directory of at most MaxListed
\* names, scan returns what it returns on the listing without the names that
\* are no candidates
ScansSkip(d, candidates, scan(_)) ==
    \E skipped \in {DOMAIN d \ candidates} :
        (skipped # {} /\ Cardinality(DOMAIN d) <= MaxListed) =>
            \A l \in Listings(DOMAIN d) :
                scan(l) = scan(SelectSeq(l, LAMBDA fn : fn \notin skipped))

\* C14: names the pattern does not accept take no part in a selection and
\* raise nothing: what a run selected is a name the pattern accepts, and on
\* a directory of at most MaxListed names each scan returns, in every
\* order of the listing, what it returns on the listing without them.  A .jar.bak file is never a candidate of the build scan:
\* the latest build artifact is a .jar file.
C14_NonMatchingExcluded ==
    (last.op # "none" /\ CheckedDirsExist) =>
        /\ BuildSelected =>
              /\ last.latest \in BuildCandidates(pre[BUILD_DIR])
              /\ ~is_backup(JarFile(last.latest))
              /\ JarFile(last.latest).extension = JAR
        /\ CacheSelected => last.current \in Artifacts(pre[jar_path(IVY_CACHE)])
        /\ ScansSkip(pre[BUILD_DIR], BuildCandidates(pre[BUILD_DIR]),
                     LAMBDA l : get_latest_build_jar(l))
        /\ ScansSkip(pre[jar_path(IVY_CACHE)], Artifacts(pre[jar_path(IVY_CACHE)]),
                     LAMBDA l : find_latest_jar(dirs, l))

C14_Witness ==
    /\ last.op = "replace" /\ last.status = "ok"
    /\ DOMAIN pre[BUILD_DIR] = {LIB_9_9_BAK, LIB_1_9_JAR}
    /\ last.latest = LIB_1_9_JAR
    /\ DOMAIN pre[JARS] = {NOTES_TXT, FOO_1_2_JAR}
    /\ last.current = FOO_1_2_JAR

\* the artifacts of directory d, each with the live name of its identity
\* (<name>-<version>.jar) and whether it is a backup
Identified(d) ==
    {[name |-> n, live |-> LiveName(n), backup |-> is_backup(JarFile(n))] : n \in Artifacts(d)}

\* the live files and the backups among them that belong to identity live
LiveFiles(identified, live) == {a.name : a \in {b \in identified : b.live = live /\ ~b.backup}}
BackupFiles(identified, live) == {a.name : a \in {b \in identified : b.live = live /\ b.backup}}

\* the slot holds, for every identity it has an artifact of, exactly one live
\* file and at most one backup
SlotHeld(d) ==
    \E identified \in {Identified(d)} :
        \A a \in identified :
            /\ LiveFiles(identified, a.live) = {a.live}
            /\ Cardinality(BackupFiles(identified, a.live)) <= 1

\* state BackedUp: some identity has its backup and no live file
BackedUp(d) ==
    \E identified \in {Identified(d)} :
        \E a \in identified :
            /\ LiveFiles(identified, a.live) = {}
            /\ BackupFiles(identified, a.live) # {}

\* C15: a replace or a restore (with force or without) that completes on a
\* slot holding one live file per identity and at most one backup leaves the
\* slot so: one live file <name>-<version>.jar and at most one backup for
\* the identity it worked on and for every other, and never a backup alone.
C15_SlotHeld ==
    (last.op # "none" /\ last.status = "ok" /\ SlotHeld(pre[JARS])) =>
        /\ SlotHeld(files[JARS])
        /\ ~BackedUp(files[JARS])
        /\ LiveName(last.current) \in DOMAIN files[JARS]

C15_Witness ==
    /\ last.op = "replace" /\ last.force /\ last.status = "ok"
    /\ prior = "restore"
    /\ SlotHeld(pre[JARS])
    /\ {FOO_1_2_JAR, FOO_1_2_0_JAR} \subseteq DOMAIN pre[JARS]
    /\ last.current = FOO_1_2_JAR
    /\ FOO_1_2_BAK \in DOMAIN files[JARS] \ DOMAIN pre[JARS]

\* the build directory d holds several candidates, their versions all of as
\* many components, all of them numbers
SeveralSameLength(d) ==
    /\ Cardinality(BuildCandidates(d)) >= 2
    /\ \A n, m \in BuildCandidates(d) :
          /\ Len(Components(n)) = Len(Components(m))
          /\ Numeric(Components(n))

\* C16: a replace on a build directory with several <name>-<version>.jar
\* files of versions with as many components selects, in every order of the
\* listing, a file no other candidate is greater than in the order of the
\* components as integers (1.10 before 1.9 is not), and when it completes
\* that file's content is what <name>-<version>.jar of the cache holds.
C16_GreatestBuildInstalled ==
    (last.op = "replace" /\ CheckedDirsExist /\ SeveralSameLength(pre[BUILD_DIR])) =>
        /\ BuildSelected
        /\ last.latest \in BuildCandidates(pre[BUILD_DIR])
        /\ \A n \in BuildCandidates(pre[BUILD_DIR]) :
              ~LexLess(Components(last.latest), Components(n))
        /\ last.status = "ok" =>
              files[JARS][LiveName(last.current)] = pre[BUILD_DIR][last.latest]

C16_Witness ==
    /\ last.op = "replace" /\ last.status = "ok"
    /\ DOMAIN pre[BUILD_DIR] = {LIB_1_10_JAR, LIB_1_9_JAR}
    /\ last.latest = LIB_1_10_JAR
    /\ files[JARS][FOO_1_2_JAR] = Content("build", LIB_1_10_JAR)

\* a slot is followed from state Live through completed replaces, none of
\* them with force
FollowedWithoutForce == origin.replaced # "no" /\ ~origin.forced

\* C17: after one or more replaces without force from state Live with
\* content c0 at <name>-<version>.jar (whatever the build directory holds and
\* whichever file each scan selects), <name>-<version>.jar.bak exists and
\* holds c0; a restore run then completes, and after it
\* <name>-<version>.jar holds c0.
C17_OriginalKept ==
    FollowedWithoutForce =>
        \A n \in Artifacts(origin.dir) :
            /\ ~origin.restored =>
                  /\ BackupName(n) \in DOMAIN files[JARS]
                  /\ files[JARS][BackupName(n)] = origin.dir[n]
                  /\ last.op # "restore"
            /\ origin.restored =>
                  /\ last.op = "restore" /\ last.status = "ok"
                  /\ n \in DOMAIN files[JARS]
                  /\ files[JARS][n] = origin.dir[n]

C17_Witness ==
    /\ FollowedWithoutForce
    /\ origin.replaced = "more" /\ origin.restored
    /\ last.current = FOO_1_2_BAK
    /\ NOTES_TXT \in DOMAIN origin.dir
    /\ files[JARS][FOO_1_2_JAR] = Content("cache", FOO_1_2_JAR)

\* C18: a completed replace from state Live (with force or without) and the
\* completed restore that follows it (runs that did not complete aside) leave
\* the jars directory of the cache with the files and the contents it had
\* before the replace.
C18_ReplaceRestoreRoundTrip ==
    (origin.replaced = "once" /\ origin.restored) =>
        /\ last.op = "restore" /\ last.status = "ok"
        /\ files[JARS] = origin.dir

C18_Witness ==
    /\ origin.replaced = "once" /\ origin.restored /\ origin.forced
    /\ last.op = "restore" /\ last.status = "ok" /\ prior = "replace"
    /\ DOMAIN files[JARS] = {FOO_1_2_0_JAR, NOTES_TXT}
    /\ files[JARS][FOO_1_2_0_JAR] = Content("cache", FOO_1_2_0_JAR)
    /\ files[JARS] # pre[JARS]

\* C19: __lt__ returns True or False for every ordered pair of JarFiles made
\* of filenames the pattern accepts, a longer version against a shorter one
\* with the same leading components and versions with an empty component
\* included: no comparison raises.
C19_LtNeverRaises ==
    cmp.done =>
        \A result \in {cmp.lt.self_other, cmp.lt.other_self, cmp.lt.other_third,
                        cmp.lt.self_third, cmp.lt.self_self} :
            result \in {"True", "False"}

====
